---- MODULE Spec2Model ----
(***************************************************************************)
(* MediaMind worker: the research-job lifecycle of the two HTTP services   *)
(* (the single-process service index.js with its DELETE endpoint and its   *)
(* in-memory activeJobs map, and the orchestrator that calls stand-alone   *)
(* workers over HTTP), the query planner generateSearchQueries, and the    *)
(* fan-out / dedup / sort of the stand-alone video worker.                 *)
(*                                                                         *)
(* Storage client contract (supabase-js, as the orchestrator uses it): an  *)
(* insert resolves with {data, error}; the handlers also guard the insert  *)
(* with try/catch, so a thrown failure is modelled as a third outcome.     *)
(* Updates resolve; an update whose .eq('id', id) matches no row changes   *)
(* nothing.                                                                *)
(***************************************************************************)
EXTENDS Integers, Sequences, FiniteSets, TLC

\* ------------------------------------------------------------------ bounds
MaxCancels == 2
MaxSaved == 1
NumAdapters == 3
MaxHits == 1

\* Jobs share no state: the registry and the table are keyed by the job id, so the
\* lifecycle is followed for one id.
Jobs == {"j1"}
Services == {"index", "orch"}
Workers == {"image", "video", "news"}
\* Promise.all([processImageResearch, processVideoResearch, processNewsResearch])
WorkerOrder == <<"image", "video", "news">>
\* The workers whose body starts with fs.mkdirSync before their try block.
ThrowingWorkers == {"video", "news"}
Errors == {"ENOSPC", "EACCES"}
NoError == "none"
\* SQL NULL of a count column / of error_message.
NullCount == -1
NullText == "null"
CancelMessage == "Cancelled by user"

VARIABLES
  svc,            \* the service that accepted the request of job j
  pc,             \* position of the request handler / background pipeline
  projects,       \* the projects table, one row per job id
  activeJobs,     \* index.js: Map projectId -> {cancelled}
  response,       \* the HTTP response to POST /v1/research
  insertOutcome,  \* how the insert of the project row ended
  wpc,            \* position of each media-type pipeline of a job
  saved,          \* local `saved` of a worker / count a worker call returned
  rejection,      \* the error a worker promise rejected with
  caught,         \* the err the .catch callback received
  cancelIssued,   \* DELETE requests received
  cancelPending,  \* DELETE requests whose update is in flight
  cancelAnswered, \* DELETE requests answered {success: true}
  flagRead,       \* history: the flag the .then / .catch callback read
  statusLog,      \* history: the status updates applied to the row, in order
  planPc,         \* generateSearchQueries: position
  planTopic,      \* its argument
  planReply,      \* what the text-generation call produced
  planResult,     \* what it returned
  fanPc,          \* video worker POST /search: position of the handler
  fanProject,     \* whether the request carries a projectId
  fanUpstream,    \* history: what each adapter's upstream search produced
  fanResults,     \* the array each adapter resolved with
  fanUnique,      \* `unique`, deduplicated and sorted
  fanNext,        \* index of the next record of the save loop
  fanSaved,       \* `saved`
  media,          \* the rows inserted into the media table
  fanResponse,    \* the HTTP response
  rankPc,         \* dedup and ranking on their own: position
  rankInput,      \* `allResults`
  rankUnique,     \* `unique` after the filter
  rankRanked,     \* `unique` after the sort
  imgPc,          \* processImageResearch: position
  imgConfig,      \* FILTER_BY_RELEVANCE and USE_QWEN_FOR_IMAGES
  imgCount,       \* searchResults.length; candidates are numbered from 1
  imgQwen,        \* history: what the Qwen endpoint answered to the batch
  imgClaude,      \* history: how the Claude call for each image ended
  imgResults,     \* `relevanceResults`
  imgToProcess,   \* `imagesToProcess`
  imgNext,        \* index of the next image of the save loop
  imgSaved,       \* `saved`
  imgAttempts,    \* history: the images the loop body ran for, with the outcome
  imgMedia,       \* the images inserted into the media table
  imgReturn,      \* what processImageResearch returned
  blkPc,          \* the blacklist check on its own: whether it is under check
  blkTitle,       \* the title of a candidate
  blkTopic,       \* the topic of the request
  blkRelevant,    \* what isRelevant(title, topic) returned, and where
  blkBlacklisted, \* what isBlacklisted(title) returned
  batPc,          \* the image worker up to the scoring call: position
  batUpstream,    \* history: what each image adapter resolved with
  batResults,     \* `searchResults`
  batToCheck,     \* `imagesToCheck`, the batch handed to validateImageBatch
  ordPc,          \* Promise.all over the adapters on its own: position
  ordResults,     \* the array each adapter resolves with
  ordArrived,     \* history: the adapters in the order they resolved
  ordRanked       \* `unique` after the sort

lifeVars == <<svc, pc, projects, activeJobs, response, insertOutcome, wpc, saved,
              rejection, caught, cancelIssued, cancelPending, cancelAnswered,
              flagRead, statusLog>>
planVars == <<planPc, planTopic, planReply, planResult>>
fanVars == <<fanPc, fanProject, fanUpstream, fanResults, fanUnique, fanNext, fanSaved,
            media, fanResponse>>
rankVars == <<rankPc, rankInput, rankUnique, rankRanked>>
\* The stages of a pipeline that are modelled on their own.
imageVars == <<imgPc, imgConfig, imgCount, imgQwen, imgClaude, imgResults, imgToProcess,
              imgNext, imgSaved, imgAttempts, imgMedia, imgReturn>>
blacklistVars == <<blkPc, blkTitle, blkTopic, blkRelevant, blkBlacklisted>>
batchVars == <<batPc, batUpstream, batResults, batToCheck>>
orderVars == <<ordPc, ordResults, ordArrived, ordRanked>>
stageVars == <<rankVars, imageVars, blacklistVars, batchVars, orderVars>>
vars == <<lifeVars, planVars, fanVars, stageVars>>

\* ------------------------------------------------------ the projects table
AbsentRow ==
  [status |-> "absent", error_message |-> NullText, completed_at |-> FALSE,
   counts |-> [w \in Workers |-> NullCount]]

RowExists(row) == row.status # "absent"

\* supabase.from('projects').insert({id, topic, slug, status: 'processing', started_at})
InsertProject ==
  [status |-> "processing", error_message |-> NullText, completed_at |-> FALSE,
   counts |-> [w \in Workers |-> NullCount]]

\* An update that writes the status and leaves the message as it was.
CancelUpdateStatusOnly(row) ==
  IF RowExists(row) THEN [row EXCEPT !.status = "cancelled"] ELSE row

\* update({status: 'cancelled', error_message: 'Cancelled by user'}).eq('id', id)
CancelUpdate(row) ==
  IF RowExists(row)
    THEN [row EXCEPT !.status = "cancelled", !.error_message = CancelMessage]
    ELSE row

\* update({status: 'completed', completed_at}).eq('id', projectId)
CompletedUpdate(row) ==
  IF RowExists(row)
    THEN [row EXCEPT !.status = "completed", !.completed_at = TRUE]
    ELSE row

\* A .catch callback that stores a fixed text instead of err.message.
FailedUpdateGenericMessage(row, e) ==
  IF RowExists(row)
    THEN [row EXCEPT !.status = "failed", !.error_message = "Research failed"]
    ELSE row

\* update({status: 'failed', error_message: err.message}).eq('id', projectId)
FailedUpdate(row, e) ==
  IF RowExists(row)
    THEN [row EXCEPT !.status = "failed", !.error_message = e]
    ELSE row

\* A write of the whole counts object, built from the writer's own count alone.
CountUpdateWholeRow(row, w, n) ==
  IF RowExists(row)
    THEN [row EXCEPT !.counts = [x \in Workers |-> IF x = w THEN n ELSE NullCount]]
    ELSE row

\* update({video_count: saved}).eq('id', projectId), one column per worker
CountUpdate(row, w, n) ==
  IF RowExists(row) THEN [row EXCEPT !.counts[w] = n] ELSE row

\* videoResult.data?.count || 0
CountOrZero(n) == IF n = NullCount THEN 0 ELSE n

\* update({status: 'completed', completed_at, video_count, image_count, news_count})
OrchCompletedUpdate(row, counts) ==
  IF RowExists(row)
    THEN [row EXCEPT !.status = "completed", !.completed_at = TRUE,
                     !.counts = [w \in Workers |-> CountOrZero(counts[w])]]
    ELSE row

Terminal == {"completed", "failed", "cancelled"}

\* ------------------------------------------------------------ initial state
LifeInit ==
  /\ svc = [j \in Jobs |-> "none"]
  /\ pc = [j \in Jobs |-> "idle"]
  /\ projects = [j \in Jobs |-> AbsentRow]
  /\ activeJobs = [j \in Jobs |-> "absent"]
  /\ response = [j \in Jobs |-> "none"]
  /\ insertOutcome = [j \in Jobs |-> "none"]
  /\ wpc = [j \in Jobs |-> [w \in Workers |-> "idle"]]
  /\ saved = [j \in Jobs |-> [w \in Workers |-> NullCount]]
  /\ rejection = [j \in Jobs |-> [w \in Workers |-> NoError]]
  /\ caught = [j \in Jobs |-> NoError]
  /\ cancelIssued = [j \in Jobs |-> 0]
  /\ cancelPending = [j \in Jobs |-> 0]
  /\ cancelAnswered = [j \in Jobs |-> 0]
  /\ flagRead = [j \in Jobs |-> "none"]
  /\ statusLog = [j \in Jobs |-> <<>>]

\* A JavaScript string is a sequence of non-empty parts (a template `${topic} footage`
\* has two); the empty string has none.
EmptyString == <<>>
\* JSON / JavaScript values of a query field, and the elements of an array.
JUndefined == [kind |-> "undefined", str |-> EmptyString, items |-> <<>>]
JNull == [kind |-> "null", str |-> EmptyString, items |-> <<>>]
JString(s) == [kind |-> "string", str |-> s, items |-> <<>>]
JNumber(digits) == [kind |-> "number", str |-> <<digits>>, items |-> <<>>]
JObject == [kind |-> "object", str |-> EmptyString, items |-> <<>>]
JArray(items) == [kind |-> "array", str |-> EmptyString, items |-> items]
StringElem(s) == [kind |-> "string", str |-> s]
NumberElem(digits) == [kind |-> "number", str |-> <<digits>>]

NoFields == [videoQueries |-> JUndefined, imageQueries |-> JUndefined,
             webQueries |-> JUndefined]
NoReply == [kind |-> "none", fields |-> NoFields]
NoResult == [kind |-> "none", videoQueries |-> JUndefined, imageQueries |-> JUndefined,
             webQueries |-> JUndefined]
PlanIdle ==
  /\ planPc = "off"
  /\ planTopic = ""
  /\ planReply = NoReply
  /\ planResult = NoResult

NoResponse == [status |-> 0, count |-> 0, results |-> <<>>]
FanIdle ==
  /\ fanPc = "off"
  /\ fanProject = FALSE
  /\ fanUpstream = <<>>
  /\ fanResults = <<>>
  /\ fanUnique = <<>>
  /\ fanNext = 0
  /\ fanSaved = 0
  /\ media = <<>>
  /\ fanResponse = NoResponse

RankIdle ==
  /\ rankPc = "off"
  /\ rankInput = <<>>
  /\ rankUnique = <<>>
  /\ rankRanked = <<>>
\* A score or a field that is not there.
NoScore == -1
NoQwenReply == [kind |-> "none", items |-> <<>>]
NoReturn == [success |-> FALSE, count |-> NoScore]
ImageIdle ==
  /\ imgPc = "off"
  /\ imgConfig = [filter |-> FALSE, qwen |-> FALSE]
  /\ imgCount = 0
  /\ imgQwen = NoQwenReply
  /\ imgClaude = <<>>
  /\ imgResults = <<>>
  /\ imgToProcess = <<>>
  /\ imgNext = 0
  /\ imgSaved = 0
  /\ imgAttempts = <<>>
  /\ imgMedia = <<>>
  /\ imgReturn = NoReturn
NoVerdict == [result |-> FALSE, at |-> "none"]
BlacklistIdle ==
  /\ blkPc = "off"
  /\ blkTitle = <<>>
  /\ blkTopic = <<>>
  /\ blkRelevant = NoVerdict
  /\ blkBlacklisted = "none"
BatchIdle ==
  /\ batPc = "off"
  /\ batUpstream = <<>>
  /\ batResults = <<>>
  /\ batToCheck = <<>>
OrderIdle ==
  /\ ordPc = "off"
  /\ ordResults = <<>>
  /\ ordArrived = <<>>
  /\ ordRanked = <<>>
StageIdle == RankIdle /\ ImageIdle /\ BlacklistIdle /\ BatchIdle /\ OrderIdle

Init == LifeInit /\ PlanIdle /\ FanIdle /\ StageIdle

\* --------------------------------------------- POST /v1/research (both services)
\* The handler up to its first await: the insert of the project row is sent.
Research(j, s) ==
  /\ pc[j] = "idle"
  /\ svc' = [svc EXCEPT ![j] = s]
  /\ pc' = [pc EXCEPT ![j] = "inserting"]
  /\ UNCHANGED <<projects, activeJobs, response, insertOutcome, wpc, saved, rejection,
                 caught, cancelIssued, cancelPending, cancelAnswered, flagRead,
                 statusLog>>
  /\ UNCHANGED <<planVars, fanVars, stageVars>>

\* The insert throws: both handlers' catch answers 500.
InsertThrows(j) ==
  /\ pc[j] = "inserting"
  /\ insertOutcome' = [insertOutcome EXCEPT ![j] = "throw"]
  /\ response' = [response EXCEPT ![j] = "error"]
  /\ pc' = [pc EXCEPT ![j] = "rejected"]
  /\ UNCHANGED <<svc, projects, activeJobs, wpc, saved, rejection, caught, cancelIssued,
                 cancelPending, cancelAnswered, flagRead, statusLog>>
  /\ UNCHANGED <<planVars, fanVars, stageVars>>

\* How each worker promise of index.js starts: the body of an async function runs
\* synchronously to its first await, so a throw of fs.mkdirSync rejects the promise
\* at once.
StartOutcomes ==
  { f \in [Workers -> {NoError} \cup Errors] :
      \A w \in Workers : f[w] # NoError => w \in ThrowingWorkers }

\* index.js, after the insert resolved (its result is not looked at): register the
\* job, answer, start the three pipelines.
IndexAccept(j, o, start) ==
  /\ pc[j] = "inserting" /\ svc[j] = "index"
  /\ insertOutcome' = [insertOutcome EXCEPT ![j] = o]
  /\ projects' = [projects EXCEPT ![j] = IF o = "ok" THEN InsertProject ELSE @]
  /\ activeJobs' = [activeJobs EXCEPT ![j] = "unset"]
  /\ response' = [response EXCEPT ![j] = "processing"]
  /\ wpc' = [wpc EXCEPT ![j] =
               [w \in Workers |-> IF start[w] = NoError THEN "running" ELSE "rejected"]]
  /\ rejection' = [rejection EXCEPT ![j] = start]
  /\ pc' = [pc EXCEPT ![j] = "running"]
  /\ UNCHANGED <<svc, saved, caught, cancelIssued, cancelPending, cancelAnswered,
                 flagRead, statusLog>>
  /\ UNCHANGED <<planVars, fanVars, stageVars>>

\* ------------------------------------------------- index.js media-type pipelines
\* A worker whose search threw inside its try block: `return {success: false}`.
WorkerFatal(j, w) ==
  /\ svc[j] = "index" /\ wpc[j][w] = "running"
  /\ wpc' = [wpc EXCEPT ![j][w] = "failed"]
  /\ UNCHANGED <<svc, pc, projects, activeJobs, response, insertOutcome, saved, rejection,
                 caught, cancelIssued, cancelPending, cancelAnswered, flagRead,
                 statusLog>>
  /\ UNCHANGED <<planVars, fanVars, stageVars>>

\* A worker that went through its result list with n records saved sends the
\* update of its count column.
WorkerCounts(j, w, n) ==
  /\ svc[j] = "index" /\ wpc[j][w] = "running"
  /\ saved' = [saved EXCEPT ![j][w] = n]
  /\ wpc' = [wpc EXCEPT ![j][w] = "writing"]
  /\ UNCHANGED <<svc, pc, projects, activeJobs, response, insertOutcome, rejection,
                 caught, cancelIssued, cancelPending, cancelAnswered, flagRead,
                 statusLog>>
  /\ UNCHANGED <<planVars, fanVars, stageVars>>

\* The count update is applied and the worker returns {success: true, count}.
CountWriteLands(j, w) ==
  /\ svc[j] = "index" /\ wpc[j][w] = "writing"
  /\ projects' = [projects EXCEPT ![j] = CountUpdate(@, w, saved[j][w])]
  /\ wpc' = [wpc EXCEPT ![j][w] = "done"]
  /\ UNCHANGED <<svc, pc, activeJobs, response, insertOutcome, saved, rejection, caught,
                 cancelIssued, cancelPending, cancelAnswered, flagRead, statusLog>>
  /\ UNCHANGED <<planVars, fanVars, stageVars>>

Fulfilled(j, w) == wpc[j][w] \in {"done", "failed"}
AllFulfilled(j) == \A w \in Workers : Fulfilled(j, w)
AnyRejected(j) == \E w \in Workers : wpc[j][w] = "rejected"

RECURSIVE FirstRejectionFrom(_, _)
FirstRejectionFrom(j, i) ==
  IF i > Len(WorkerOrder) THEN NoError
  ELSE IF rejection[j][WorkerOrder[i]] # NoError THEN rejection[j][WorkerOrder[i]]
  ELSE FirstRejectionFrom(j, i + 1)
\* The reason Promise.all rejects with.
FirstRejection(j) == FirstRejectionFrom(j, 1)

\* A status update applied to an existing row, as the history records it.
Logged(log, old, new, by) ==
  IF RowExists(old)
    THEN Append(log, [status |-> new.status, error_message |-> new.error_message,
                      by |-> by])
    ELSE log

\* Callbacks that do not look at the flag.
SendsFinalUpdateAlways(flag) == TRUE

\* ------------------------------------------- index.js: Promise.all(...).then/.catch
\* `if (job?.cancelled) return;` in both callbacks: the final update is sent only
\* when the flag is not set.
SendsFinalUpdate(flag) == flag # "set"

\* .then callback: the checkpoint after all three pipelines fulfilled. With the flag
\* set it returns, and .finally deletes the registry entry in the same turn.
Checkpoint(j) ==
  /\ svc[j] = "index" /\ pc[j] = "running" /\ AllFulfilled(j)
  /\ flagRead' = [flagRead EXCEPT ![j] = activeJobs[j]]
  /\ IF SendsFinalUpdate(activeJobs[j])
       THEN /\ pc' = [pc EXCEPT ![j] = "completing"]
            /\ UNCHANGED activeJobs
       ELSE /\ pc' = [pc EXCEPT ![j] = "settled"]
            /\ activeJobs' = [activeJobs EXCEPT ![j] = "absent"]
  /\ UNCHANGED <<svc, projects, response, insertOutcome, wpc, saved, rejection, caught,
                 cancelIssued, cancelPending, cancelAnswered, statusLog>>
  /\ UNCHANGED <<planVars, fanVars, stageVars>>

\* The update {status: 'completed', completed_at} is applied.
CompletedLands(j) ==
  /\ svc[j] = "index" /\ pc[j] = "completing"
  /\ projects' = [projects EXCEPT ![j] = CompletedUpdate(@)]
  /\ statusLog' = [statusLog EXCEPT ![j] =
                     Logged(@, projects[j], projects'[j], "pipeline")]
  /\ pc' = [pc EXCEPT ![j] = "landed"]
  /\ UNCHANGED <<svc, activeJobs, response, insertOutcome, wpc, saved, rejection, caught,
                 cancelIssued, cancelPending, cancelAnswered, flagRead>>
  /\ UNCHANGED <<planVars, fanVars, stageVars>>

\* .catch callback: Promise.all rejected with the first rejection.
Catch(j) ==
  /\ svc[j] = "index" /\ pc[j] = "running" /\ AnyRejected(j)
  /\ caught' = [caught EXCEPT ![j] = FirstRejection(j)]
  /\ flagRead' = [flagRead EXCEPT ![j] = activeJobs[j]]
  /\ IF SendsFinalUpdate(activeJobs[j])
       THEN /\ pc' = [pc EXCEPT ![j] = "failing"]
            /\ UNCHANGED activeJobs
       ELSE /\ pc' = [pc EXCEPT ![j] = "settled"]
            /\ activeJobs' = [activeJobs EXCEPT ![j] = "absent"]
  /\ UNCHANGED <<svc, projects, response, insertOutcome, wpc, saved, rejection,
                 cancelIssued, cancelPending, cancelAnswered, statusLog>>
  /\ UNCHANGED <<planVars, fanVars, stageVars>>

\* The update {status: 'failed', error_message: err.message} is applied.
FailedLands(j) ==
  /\ svc[j] = "index" /\ pc[j] = "failing"
  /\ projects' = [projects EXCEPT ![j] = FailedUpdate(@, caught[j])]
  /\ statusLog' = [statusLog EXCEPT ![j] =
                     Logged(@, projects[j], projects'[j], "pipeline")]
  /\ pc' = [pc EXCEPT ![j] = "landed"]
  /\ UNCHANGED <<svc, activeJobs, response, insertOutcome, wpc, saved, rejection, caught,
                 cancelIssued, cancelPending, cancelAnswered, flagRead>>
  /\ UNCHANGED <<planVars, fanVars, stageVars>>

\* A chain without the .finally callback: the entry stays.
SettleKeepsEntry(j) ==
  /\ svc[j] = "index" /\ pc[j] = "landed"
  /\ pc' = [pc EXCEPT ![j] = "settled"]
  /\ UNCHANGED <<svc, projects, activeJobs, response, insertOutcome, wpc, saved,
                 rejection, caught, cancelIssued, cancelPending, cancelAnswered,
                 flagRead, statusLog>>
  /\ UNCHANGED <<planVars, fanVars, stageVars>>

\* The awaited final update resolved: .finally(() => activeJobs.delete(projectId)).
Settle(j) ==
  /\ svc[j] = "index" /\ pc[j] = "landed"
  /\ activeJobs' = [activeJobs EXCEPT ![j] = "absent"]
  /\ pc' = [pc EXCEPT ![j] = "settled"]
  /\ UNCHANGED <<svc, projects, response, insertOutcome, wpc, saved, rejection, caught,
                 cancelIssued, cancelPending, cancelAnswered, flagRead, statusLog>>
  /\ UNCHANGED <<planVars, fanVars, stageVars>>

\* A handler that flips the flag instead of setting it.
MarkCancelledToggles(entry) ==
  IF entry = "absent" THEN "absent" ELSE IF entry = "set" THEN "unset" ELSE "set"

\* ------------------------------------------------ index.js: DELETE /v1/project/:id
\* `const job = activeJobs.get(id); if (job) job.cancelled = true;`
MarkCancelled(entry) == IF entry = "absent" THEN "absent" ELSE "set"

\* The handler up to its await: the flag is set when the job is registered, and the
\* update of the row is sent whatever the registry and the row hold.
Cancel(j) ==
  /\ svc[j] = "index" /\ response[j] # "none"
  /\ cancelIssued[j] < MaxCancels
  /\ activeJobs' = [activeJobs EXCEPT ![j] = MarkCancelled(@)]
  /\ cancelIssued' = [cancelIssued EXCEPT ![j] = @ + 1]
  /\ cancelPending' = [cancelPending EXCEPT ![j] = @ + 1]
  /\ UNCHANGED <<svc, pc, projects, response, insertOutcome, wpc, saved, rejection,
                 caught, cancelAnswered, flagRead, statusLog>>
  /\ UNCHANGED <<planVars, fanVars, stageVars>>

\* The update is applied and the handler answers {success: true}.
CancelLands(j) ==
  /\ cancelPending[j] > 0
  /\ projects' = [projects EXCEPT ![j] = CancelUpdate(@)]
  /\ statusLog' = [statusLog EXCEPT ![j] =
                     Logged(@, projects[j], projects'[j], "delete")]
  /\ cancelPending' = [cancelPending EXCEPT ![j] = @ - 1]
  /\ cancelAnswered' = [cancelAnswered EXCEPT ![j] = @ + 1]
  /\ UNCHANGED <<svc, pc, activeJobs, response, insertOutcome, wpc, saved, rejection,
                 caught, cancelIssued, flagRead>>
  /\ UNCHANGED <<planVars, fanVars, stageVars>>

\* ------------------------------------------------- orchestrator: POST /v1/research
\* `if (insertError) return res.status(500)...`
OrchInsertError(j) ==
  /\ pc[j] = "inserting" /\ svc[j] = "orch"
  /\ insertOutcome' = [insertOutcome EXCEPT ![j] = "error"]
  /\ response' = [response EXCEPT ![j] = "error"]
  /\ pc' = [pc EXCEPT ![j] = "rejected"]
  /\ UNCHANGED <<svc, projects, activeJobs, wpc, saved, rejection, caught, cancelIssued,
                 cancelPending, cancelAnswered, flagRead, statusLog>>
  /\ UNCHANGED <<planVars, fanVars, stageVars>>

\* A handler that starts the background function without having answered.
OrchAcceptUnanswered(j) ==
  /\ pc[j] = "inserting" /\ svc[j] = "orch"
  /\ insertOutcome' = [insertOutcome EXCEPT ![j] = "ok"]
  /\ projects' = [projects EXCEPT ![j] = InsertProject]
  /\ pc' = [pc EXCEPT ![j] = "planning"]
  /\ UNCHANGED <<svc, activeJobs, response, wpc, saved, rejection, caught, cancelIssued,
                 cancelPending, cancelAnswered, flagRead, statusLog>>
  /\ UNCHANGED <<planVars, fanVars, stageVars>>

\* The row is created: answer, then start the background function, which first
\* awaits generateSearchQueries.
OrchAccept(j) ==
  /\ pc[j] = "inserting" /\ svc[j] = "orch"
  /\ insertOutcome' = [insertOutcome EXCEPT ![j] = "ok"]
  /\ projects' = [projects EXCEPT ![j] = InsertProject]
  /\ response' = [response EXCEPT ![j] = "processing"]
  /\ pc' = [pc EXCEPT ![j] = "planning"]
  /\ UNCHANGED <<svc, activeJobs, wpc, saved, rejection, caught, cancelIssued,
                 cancelPending, cancelAnswered, flagRead, statusLog>>
  /\ UNCHANGED <<planVars, fanVars, stageVars>>

\* generateSearchQueries returned (it never throws): the three axios.post calls start.
OrchFanOut(j) ==
  /\ svc[j] = "orch" /\ pc[j] = "planning"
  /\ wpc' = [wpc EXCEPT ![j] = [w \in Workers |-> "running"]]
  /\ pc' = [pc EXCEPT ![j] = "running"]
  /\ UNCHANGED <<svc, projects, activeJobs, response, insertOutcome, saved, rejection,
                 caught, cancelIssued, cancelPending, cancelAnswered, flagRead, statusLog>>
  /\ UNCHANGED <<planVars, fanVars, stageVars>>

\* A worker answers 200 with {count: n}, or with a body that has no count.
WorkerReplies(j, w, n) ==
  /\ svc[j] = "orch" /\ wpc[j][w] = "running"
  /\ saved' = [saved EXCEPT ![j][w] = n]
  /\ wpc' = [wpc EXCEPT ![j][w] = "done"]
  /\ UNCHANGED <<svc, pc, projects, activeJobs, response, insertOutcome, rejection,
                 caught, cancelIssued, cancelPending, cancelAnswered, flagRead, statusLog>>
  /\ UNCHANGED <<planVars, fanVars, stageVars>>

\* `.catch(e => ({data: {count: 0}}))`: what a failed or timed-out call resolves to.
FailedCallCount == 0

\* A call without its .catch: Promise.all rejects and the outer catch of the
\* background function writes the job failed.
WorkerCallFailsRejects(j, w) ==
  /\ svc[j] = "orch" /\ wpc[j][w] = "running"
  /\ wpc' = [wpc EXCEPT ![j][w] = "failed"]
  /\ projects' = [projects EXCEPT ![j] = FailedUpdate(@, "ECONNREFUSED")]
  /\ statusLog' = [statusLog EXCEPT ![j] =
                     Logged(@, projects[j], projects'[j], "pipeline")]
  /\ pc' = [pc EXCEPT ![j] = "settled"]
  /\ UNCHANGED <<svc, activeJobs, response, insertOutcome, saved, rejection, caught,
                 cancelIssued, cancelPending, cancelAnswered, flagRead>>
  /\ UNCHANGED <<planVars, fanVars, stageVars>>

\* The call fails (an error status, a refused connection) or times out.
WorkerCallFails(j, w) ==
  /\ svc[j] = "orch" /\ wpc[j][w] = "running"
  /\ saved' = [saved EXCEPT ![j][w] = FailedCallCount]
  /\ wpc' = [wpc EXCEPT ![j][w] = "failed"]
  /\ UNCHANGED <<svc, pc, projects, activeJobs, response, insertOutcome, rejection,
                 caught, cancelIssued, cancelPending, cancelAnswered, flagRead, statusLog>>
  /\ UNCHANGED <<planVars, fanVars, stageVars>>

\* await Promise.all(workerPromises) resolved: the final update with the counts.
OrchComplete(j) ==
  /\ svc[j] = "orch" /\ pc[j] = "running" /\ AllFulfilled(j)
  /\ projects' = [projects EXCEPT ![j] = OrchCompletedUpdate(@, saved[j])]
  /\ statusLog' = [statusLog EXCEPT ![j] =
                     Logged(@, projects[j], projects'[j], "pipeline")]
  /\ pc' = [pc EXCEPT ![j] = "settled"]
  /\ UNCHANGED <<svc, activeJobs, response, insertOutcome, wpc, saved, rejection, caught,
                 cancelIssued, cancelPending, cancelAnswered, flagRead>>
  /\ UNCHANGED <<planVars, fanVars, stageVars>>

SavedCounts == 0..MaxSaved

Next ==
  \/ \E j \in Jobs, s \in Services : Research(j, s)
  \/ \E j \in Jobs : InsertThrows(j)
  \/ \E j \in Jobs, o \in {"ok", "error"}, start \in StartOutcomes : IndexAccept(j, o, start)
  \/ \E j \in Jobs, w \in Workers : WorkerFatal(j, w)
  \/ \E j \in Jobs, w \in Workers, n \in SavedCounts : WorkerCounts(j, w, n)
  \/ \E j \in Jobs, w \in Workers : CountWriteLands(j, w)
  \/ \E j \in Jobs : Checkpoint(j)
  \/ \E j \in Jobs : CompletedLands(j)
  \/ \E j \in Jobs : Catch(j)
  \/ \E j \in Jobs : FailedLands(j)
  \/ \E j \in Jobs : Settle(j)
  \/ \E j \in Jobs : Cancel(j)
  \/ \E j \in Jobs : CancelLands(j)
  \/ \E j \in Jobs : OrchInsertError(j)
  \/ \E j \in Jobs : OrchAccept(j)
  \/ \E j \in Jobs : OrchFanOut(j)
  \/ \E j \in Jobs, w \in Workers, n \in SavedCounts \cup {NullCount} : WorkerReplies(j, w, n)
  \/ \E j \in Jobs, w \in Workers : WorkerCallFails(j, w)
  \/ \E j \in Jobs : OrchComplete(j)

Spec == Init /\ [][Next]_vars

\* ======================================================================
\* Properties of the job lifecycle
\* ======================================================================
IndexJob(j) == svc[j] = "index"
OrchJob(j) == svc[j] = "orch"
PipelineBegun(j) ==
  \/ pc[j] \in {"planning", "running", "completing", "failing", "landed", "settled"}
  \/ \E w \in Workers : wpc[j][w] # "idle"
LoggedStatuses(j) == {statusLog[j][i].status : i \in DOMAIN statusLog[j]}

\* C1: once the stored status of a job is completed, failed or cancelled, neither a
\* DELETE request nor a final update of the pipeline changes the status or the
\* counts of its row.
TerminalIsImmutable ==
  [][\A j \in Jobs :
       (/\ projects[j].status \in Terminal
        /\ Cancel(j) \/ CancelLands(j) \/ CompletedLands(j) \/ FailedLands(j)) =>
         /\ projects'[j].status = projects[j].status
         /\ projects'[j].counts = projects[j].counts]_vars

\* C2: when the .then checkpoint finds the cancellation flag set, the row is never
\* written completed, and once the DELETE updates have been applied the job is
\* cancelled, even though every pipeline fulfilled; a row is written completed
\* only after a checkpoint that found the flag not set.
CancelBeforeCheckpointWins ==
  \A j \in Jobs :
    IndexJob(j) =>
      /\ (flagRead[j] = "set" /\ caught[j] = NoError) =>
            /\ "completed" \notin LoggedStatuses(j)
            /\ projects[j].status # "completed"
            /\ (cancelPending[j] = 0 /\ RowExists(projects[j])) =>
                  projects[j].status = "cancelled"
      /\ "completed" \in LoggedStatuses(j) =>
            (flagRead[j] = "unset" /\ caught[j] = NoError)

\* C2 witness: the flag was set while the pipelines ran, all three finished with
\* their counts written, and the job ended cancelled.
CancelledAtCheckpoint ==
  \E j \in Jobs :
    /\ IndexJob(j) /\ flagRead[j] = "set" /\ caught[j] = NoError
    /\ \A w \in Workers : wpc[j][w] = "done"
    /\ cancelPending[j] = 0
    /\ projects[j].status = "cancelled"

\* C3: no DELETE request writes the status column; only the pipeline does.
CancelOnlySetsFlag ==
  \A j \in Jobs : \A i \in DOMAIN statusLog[j] : statusLog[j][i].by # "delete"

\* C4: background work of a job (query planning, a media-type pipeline) runs only
\* after the response {status: processing} was sent, and a created row starts in
\* status processing.
RespondsBeforePipeline ==
  \A j \in Jobs :
    /\ PipelineBegun(j) => response[j] = "processing"
    /\ (RowExists(projects[j]) /\ statusLog[j] = <<>>) =>
          projects[j].status = "processing"
    /\ (PipelineBegun(j) /\ insertOutcome[j] = "ok") => RowExists(projects[j])

\* C4 witness: pipelines are running, nothing is finished, the answer is out.
AnsweredWhileRunning ==
  \E j \in Jobs :
    /\ response[j] = "processing"
    /\ projects[j].status = "processing"
    /\ \A w \in Workers : wpc[j][w] = "running"

\* C5: every answered DELETE was answered with success, and a DELETE repeated on
\* its own result changes neither the row nor the registry entry, whether the job is
\* processing, terminal or has no row.
CancelIsIdempotent ==
  /\ [](\A j \in Jobs :
         /\ cancelAnswered[j] = cancelIssued[j] - cancelPending[j]
         /\ CancelUpdate(CancelUpdate(projects[j])) = CancelUpdate(projects[j])
         /\ MarkCancelled(MarkCancelled(activeJobs[j])) = MarkCancelled(activeJobs[j]))
  /\ [][\A j \in Jobs :
         /\ (CancelLands(j) /\ projects[j].status = "cancelled"
               /\ projects[j].error_message = CancelMessage) => projects' = projects
         /\ (CancelLands(j) /\ ~RowExists(projects[j])) => projects' = projects
         /\ (Cancel(j) /\ activeJobs[j] \in {"set", "absent"}) =>
               activeJobs' = activeJobs]_vars

\* C5 witness: two DELETE requests were answered, for a job whose pipeline had
\* already settled.
CancelledTwice ==
  \E j \in Jobs :
    /\ cancelAnswered[j] = 2 /\ pc[j] = "settled"
    /\ projects[j].status = "cancelled"

\* C6: when the insert of the project row fails, the request is answered with an
\* error, the job is not registered and no pipeline starts.
InsertFailureIsFatal ==
  \A j \in Jobs :
    insertOutcome[j] \in {"error", "throw"} =>
      /\ response[j] = "error"
      /\ activeJobs[j] = "absent"
      /\ ~PipelineBegun(j)

\* The rejection Promise.all reports: the first in array order.
CausingError(j) ==
  IF rejection[j]["video"] # NoError THEN rejection[j]["video"] ELSE rejection[j]["news"]

\* C7: when the .catch callback ran with the flag not set, the row is written
\* failed with the message of the rejection, and stays so unless a DELETE request
\* was made.
EscapedExceptionFails ==
  \A j \in Jobs :
    (/\ caught[j] # NoError /\ flagRead[j] = "unset"
     /\ pc[j] \in {"landed", "settled"} /\ RowExists(projects[j])) =>
      /\ \E i \in DOMAIN statusLog[j] :
            statusLog[j][i] = [status |-> "failed", error_message |-> CausingError(j),
                               by |-> "pipeline"]
      /\ cancelIssued[j] = 0 =>
            /\ projects[j].status = "failed"
            /\ projects[j].error_message = CausingError(j)

\* C7 witness: the news pipeline rejected while the video pipeline did not.
FailedByNewsRejection ==
  \E j \in Jobs :
    /\ pc[j] = "settled" /\ flagRead[j] = "unset"
    /\ rejection[j]["video"] = NoError /\ rejection[j]["news"] = "EACCES"
    /\ projects[j].status = "failed" /\ projects[j].error_message = "EACCES"

\* C9: a settled orchestrator job is completed, a failed or timed-out worker call
\* is recorded with count 0, and every other type has the count its worker reported.
FailedWorkerCountsZero ==
  \A j \in Jobs :
    (OrchJob(j) /\ pc[j] = "settled") =>
      /\ projects[j].status = "completed"
      /\ \A w \in Workers :
            /\ wpc[j][w] = "failed" => projects[j].counts[w] = 0
            /\ wpc[j][w] = "done" =>
                  projects[j].counts[w] = IF saved[j][w] = NullCount THEN 0 ELSE saved[j][w]

\* C9 witness: one call failed, the others reported a count.
CompletedDespiteFailedWorker ==
  \E j \in Jobs :
    /\ OrchJob(j) /\ pc[j] = "settled"
    /\ wpc[j]["video"] = "failed" /\ wpc[j]["image"] = "done" /\ wpc[j]["news"] = "done"
    /\ projects[j].counts["image"] = 1 /\ projects[j].counts["video"] = 0
    /\ projects[j].status = "completed"

\* ======================================================================
\* generateSearchQueries (orchestrator)
\* ======================================================================
\* The handler answers 400 for a missing or empty topic, so the planner is only
\* called with a non-empty one.
Topics == {<<"moon landing">>, <<"al capone">>}

\* `x || y`: undefined, null, "", 0 are falsy; every array and object is truthy.
Truthy(v) ==
  CASE v.kind \in {"undefined", "null"} -> FALSE
    [] v.kind = "string" -> v.str # EmptyString
    [] v.kind = "number" -> v.str # <<"0">>
    [] OTHER -> TRUE

\* `parsed.videoQueries || [topic]`
OrTopic(v, topic) == IF Truthy(v) THEN v ELSE JArray(<<StringElem(topic)>>)

\* The fallback after the try block.
FallbackQueries(topic) ==
  [kind |-> "returned",
   videoQueries |-> JArray(<<StringElem(topic), StringElem(topic \o <<" documentary">>),
                             StringElem(topic \o <<" footage">>),
                             StringElem(topic \o <<" explained">>)>>),
   imageQueries |-> JArray(<<StringElem(topic), StringElem(topic \o <<" photo">>),
                             StringElem(topic \o <<" historical">>),
                             StringElem(topic \o <<" images">>)>>),
   webQueries |-> JArray(<<StringElem(topic), StringElem(topic \o <<" article">>),
                           StringElem(topic \o <<" history">>),
                           StringElem(topic \o <<" explained">>)>>)]

\* The reply kinds: the call rejects, or response.content is empty (a TypeError
\* inside the try), the first block is not text (text = ''), the text holds no
\* {...}, JSON.parse throws, or JSON.parse returns an object.
ReplyKinds == {"exception", "no_content", "not_text", "no_braces", "bad_json", "json"}

generateSearchQueries(topic, reply) ==
  IF reply.kind = "json"
    THEN [kind |-> "returned",
          videoQueries |-> OrTopic(reply.fields.videoQueries, topic),
          imageQueries |-> OrTopic(reply.fields.imageQueries, topic),
          webQueries |-> OrTopic(reply.fields.webQueries, topic)]
    ELSE FallbackQueries(topic)

\* What the text-generation capability may put in a query field.
FieldValues ==
  { JUndefined, JNull, JString(EmptyString), JString(<<"q">>), JNumber("0"),
    JNumber("5"), JObject, JArray(<<>>), JArray(<<StringElem(EmptyString)>>),
    JArray(<<StringElem(<<"q1">>)>>),
    JArray(<<StringElem(<<"q1">>), StringElem(<<"q2">>)>>),
    JArray(<<NumberElem("7")>>) }

Replies ==
  { [kind |-> k, fields |-> NoFields] : k \in ReplyKinds \ {"json"} }
  \cup { [kind |-> "json", fields |-> f] :
           f \in [videoQueries : FieldValues, imageQueries : FieldValues,
                  webQueries : FieldValues] }

InitPlan ==
  /\ LifeInit /\ FanIdle /\ StageIdle
  /\ planPc = "start"
  /\ planTopic \in Topics
  /\ planReply = NoReply
  /\ planResult = NoResult

\* await anthropic.messages.create(...) settles.
PlanReplies(r) ==
  /\ planPc = "start"
  /\ planReply' = r
  /\ planPc' = "replied"
  /\ UNCHANGED <<planTopic, planResult>>
  /\ UNCHANGED <<lifeVars, fanVars, stageVars>>

PlanReturns ==
  /\ planPc = "replied"
  /\ planResult' = generateSearchQueries(planTopic, planReply)
  /\ planPc' = "done"
  /\ UNCHANGED <<planTopic, planReply>>
  /\ UNCHANGED <<lifeVars, fanVars, stageVars>>

NextPlan ==
  \/ \E r \in Replies : PlanReplies(r)
  \/ PlanReturns

SpecPlan == InitPlan /\ [][NextPlan]_vars

\* A value that is a list holding at least one non-empty query string.
HasQuery(v) ==
  /\ v.kind = "array"
  /\ \E i \in DOMAIN v.items : v.items[i].kind = "string" /\ v.items[i].str # EmptyString

\* C10: generateSearchQueries returns, and for every reply of the text-generation
\* call its result holds at least one non-empty query for each of the video, image
\* and web types.
PlannerAlwaysYieldsQueries ==
  planPc = "done" =>
    /\ planResult.kind = "returned"
    /\ HasQuery(planResult.videoQueries)
    /\ HasQuery(planResult.imageQueries)
    /\ HasQuery(planResult.webQueries)

\* ======================================================================
\* Video worker, POST /search: fan-out over the source adapters, dedup, sort, save
\* ======================================================================
\* The adapters in the order of the Promise.all array, with the priority each one
\* stamps on its hits and whether it drops blacklisted titles.
AdapterTable ==
  << [name |-> "archive_org", priority |-> 1, blacklist |-> FALSE],
     [name |-> "searxng_videos", priority |-> 2, blacklist |-> TRUE],
     [name |-> "free_stock", priority |-> 2, blacklist |-> TRUE],
     [name |-> "historical_archives", priority |-> 3, blacklist |-> FALSE],
     [name |-> "news_documentary", priority |-> 4, blacklist |-> TRUE],
     [name |-> "stock_footage", priority |-> 5, blacklist |-> TRUE],
     [name |-> "web_search", priority |-> 6, blacklist |-> TRUE] >>
Adapters == 1..NumAdapters

\* Upstream items: every modelled url is one isVideoUrl accepts.
Urls == {"a.mp4", "b.mp4"}
Titles == {"Apollo 11 footage", "Minecraft moon base"}
\* The BLACKLIST_TERMS each title contains, lower-cased.
TermsIn(title) == IF title = "Minecraft moon base" THEN {"minecraft"} ELSE {}
isBlacklisted(title) == TermsIn(title) # {}

\* What an upstream search can list: a clean title under either url, and a
\* blacklisted title under the second.
UpstreamItems ==
  { item \in [url : Urls, title : Titles] :
      isBlacklisted(item.title) => item.url = "b.mp4" }
RECURSIVE SeqsUpTo(_, _)
SeqsUpTo(S, n) ==
  IF n = 0 THEN {<<>>}
  ELSE LET shorter == SeqsUpTo(S, n - 1)
       IN shorter \cup {Append(q, x) : q \in {t \in shorter : Len(t) = n - 1}, x \in S}
UpstreamReplies == SeqsUpTo(UpstreamItems, MaxHits)

\* The test an adapter applies to an item before it pushes it.
AdapterKeeps(a, item) == ~(AdapterTable[a].blacklist /\ isBlacklisted(item.title))

RECURSIVE AdapterHitsFrom(_, _, _)
AdapterHitsFrom(a, reply, i) ==
  IF i > Len(reply) THEN <<>>
  ELSE (IF AdapterKeeps(a, reply[i])
          THEN <<[url |-> reply[i].url, title |-> reply[i].title,
                  priority |-> AdapterTable[a].priority]>>
          ELSE <<>>) \o AdapterHitsFrom(a, reply, i + 1)
\* The `results` array an adapter returns for an upstream reply.
AdapterHits(a, reply) == AdapterHitsFrom(a, reply, 1)

RECURSIVE ConcatFrom(_, _)
ConcatFrom(results, a) ==
  IF a > NumAdapters THEN <<>> ELSE results[a] \o ConcatFrom(results, a + 1)
\* allResults = [...archive, ...searxngVideos, ...]
Combine(results) == ConcatFrom(results, 1)

\* A filter that keeps the last record of each url.
RECURSIVE DedupLastFrom(_, _)
DedupLastFrom(s, i) ==
  IF i > Len(s) THEN <<>>
  ELSE (IF \A k \in (i + 1)..Len(s) : s[k].url # s[i].url THEN <<s[i]>> ELSE <<>>)
         \o DedupLastFrom(s, i + 1)
DedupKeepsLast(s) == DedupLastFrom(s, 1)

RECURSIVE DedupFrom(_, _)
DedupFrom(s, i) ==
  IF i > Len(s) THEN <<>>
  ELSE (IF \A k \in 1..(i - 1) : s[k].url # s[i].url THEN <<s[i]>> ELSE <<>>)
         \o DedupFrom(s, i + 1)
\* allResults.filter((item, index, self) => index === self.findIndex(t => t.url === item.url))
Dedup(s) == DedupFrom(s, 1)

\* An insertion that puts x in front of the elements of its own priority.
RECURSIVE InsertBeforeEqual(_, _)
InsertBeforeEqual(sorted, x) ==
  IF sorted = <<>> THEN <<x>>
  ELSE IF Head(sorted).priority < x.priority
         THEN <<Head(sorted)>> \o InsertBeforeEqual(Tail(sorted), x)
         ELSE <<x>> \o sorted

\* Insert x behind every element whose priority is not larger.
RECURSIVE InsertByPriority(_, _)
InsertByPriority(sorted, x) ==
  IF sorted = <<>> THEN <<x>>
  ELSE IF Head(sorted).priority <= x.priority
         THEN <<Head(sorted)>> \o InsertByPriority(Tail(sorted), x)
         ELSE <<x>> \o sorted
RECURSIVE SortFrom(_, _, _)
SortFrom(s, i, acc) ==
  IF i > Len(s) THEN acc ELSE SortFrom(s, i + 1, InsertByPriority(acc, s[i]))
\* unique.sort((a, b) => a.priority - b.priority): Array.prototype.sort is stable.
SortByPriority(s) == SortFrom(s, 1, <<>>)

Pending == [state |-> "pending", items |-> <<>>]

InitFan ==
  /\ LifeInit /\ PlanIdle /\ StageIdle
  /\ fanPc = "start"
  /\ fanProject \in BOOLEAN
  /\ fanUpstream = <<>>
  /\ fanResults = <<>>
  /\ fanUnique = <<>>
  /\ fanNext = 0
  /\ fanSaved = 0
  /\ media = <<>>
  /\ fanResponse = NoResponse

\* `if (!topic) return res.status(400)...`
FanBadRequest ==
  /\ fanPc = "start"
  /\ fanResponse' = [status |-> 400, count |-> 0, results |-> <<>>]
  /\ fanPc' = "responded"
  /\ UNCHANGED <<fanProject, fanUpstream, fanResults, fanUnique, fanNext, fanSaved, media>>
  /\ UNCHANGED <<lifeVars, planVars, stageVars>>

\* `queries` is given and is no array: searchQueries.join(...) throws before the try
\* block, and the request is never answered.
FanCrash ==
  /\ fanPc = "start"
  /\ fanPc' = "crashed"
  /\ UNCHANGED <<fanProject, fanUpstream, fanResults, fanUnique, fanNext, fanSaved, media,
                 fanResponse>>
  /\ UNCHANGED <<lifeVars, planVars, stageVars>>

\* Promise.all([...]) starts every adapter.
FanStart ==
  /\ fanPc = "start"
  /\ fanUpstream' = [a \in Adapters |-> Pending]
  /\ fanResults' = [a \in Adapters |-> <<>>]
  /\ fanPc' = "searching"
  /\ UNCHANGED <<fanProject, fanUnique, fanNext, fanSaved, media, fanResponse>>
  /\ UNCHANGED <<lifeVars, planVars, stageVars>>

\* The upstream search of adapter a answered: its loop pushes the items it keeps.
AdapterReturns(a, reply) ==
  /\ fanPc = "searching" /\ fanUpstream[a].state = "pending"
  /\ fanUpstream' = [fanUpstream EXCEPT ![a] = [state |-> "ok", items |-> reply]]
  /\ fanResults' = [fanResults EXCEPT ![a] = AdapterHits(a, reply)]
  /\ UNCHANGED <<fanPc, fanProject, fanUnique, fanNext, fanSaved, media, fanResponse>>
  /\ UNCHANGED <<lifeVars, planVars, stageVars>>

\* An adapter without the catch in its loop: Promise.all rejects and the handler's
\* catch answers 500.
AdapterFailsRejects(a) ==
  /\ fanPc = "searching" /\ fanUpstream[a].state = "pending"
  /\ fanUpstream' = [fanUpstream EXCEPT ![a] = [state |-> "failed", items |-> <<>>]]
  /\ fanResponse' = [status |-> 500, count |-> 0, results |-> <<>>]
  /\ fanPc' = "responded"
  /\ UNCHANGED <<fanProject, fanResults, fanUnique, fanNext, fanSaved, media>>
  /\ UNCHANGED <<lifeVars, planVars, stageVars>>

\* The upstream search of adapter a threw or timed out: the catch inside the
\* adapter's loop logs it, and the adapter returns what it has, nothing.
AdapterFails(a) ==
  /\ fanPc = "searching" /\ fanUpstream[a].state = "pending"
  /\ fanUpstream' = [fanUpstream EXCEPT ![a] = [state |-> "failed", items |-> <<>>]]
  /\ fanResults' = [fanResults EXCEPT ![a] = <<>>]
  /\ UNCHANGED <<fanPc, fanProject, fanUnique, fanNext, fanSaved, media, fanResponse>>
  /\ UNCHANGED <<lifeVars, planVars, stageVars>>

\* A handler that sorts the combined list without the filter on urls.
FanCombineKeepsDuplicates ==
  /\ fanPc = "searching"
  /\ \A a \in Adapters : fanUpstream[a].state # "pending"
  /\ fanUnique' = SortByPriority(Combine(fanResults))
  /\ fanNext' = IF fanProject THEN 1 ELSE Len(fanUnique') + 1
  /\ fanPc' = "saving"
  /\ UNCHANGED <<fanProject, fanUpstream, fanResults, fanSaved, media, fanResponse>>
  /\ UNCHANGED <<lifeVars, planVars, stageVars>>

\* Promise.all resolved: combine, deduplicate, sort; the save loop runs only with a
\* projectId.
FanCombine ==
  /\ fanPc = "searching"
  /\ \A a \in Adapters : fanUpstream[a].state # "pending"
  /\ fanUnique' = SortByPriority(Dedup(Combine(fanResults)))
  /\ fanNext' = IF fanProject THEN 1 ELSE Len(fanUnique') + 1
  /\ fanPc' = "saving"
  /\ UNCHANGED <<fanProject, fanUpstream, fanResults, fanSaved, media, fanResponse>>
  /\ UNCHANGED <<lifeVars, planVars, stageVars>>

\* One turn of the save loop: the insert is applied, resolves with an error, or
\* throws into the empty catch.
SaveNext(outcome) ==
  /\ fanPc = "saving" /\ fanNext <= Len(fanUnique)
  /\ media' = IF outcome = "ok" THEN Append(media, fanUnique[fanNext].url) ELSE media
  /\ fanSaved' = IF outcome = "throw" THEN fanSaved ELSE fanSaved + 1
  /\ fanNext' = fanNext + 1
  /\ UNCHANGED <<fanPc, fanProject, fanUpstream, fanResults, fanUnique, fanResponse>>
  /\ UNCHANGED <<lifeVars, planVars, stageVars>>

\* res.json({success: true, count: unique.length, results: unique, ...})
FanRespond ==
  /\ fanPc = "saving" /\ fanNext > Len(fanUnique)
  /\ fanResponse' = [status |-> 200, count |-> Len(fanUnique), results |-> fanUnique]
  /\ fanPc' = "responded"
  /\ UNCHANGED <<fanProject, fanUpstream, fanResults, fanUnique, fanNext, fanSaved, media>>
  /\ UNCHANGED <<lifeVars, planVars, stageVars>>

NextFan ==
  \/ FanBadRequest
  \/ FanCrash
  \/ FanStart
  \/ \E a \in Adapters, reply \in UpstreamReplies : AdapterReturns(a, reply)
  \/ \E a \in Adapters : AdapterFails(a)
  \/ FanCombine
  \/ \E outcome \in {"ok", "error", "throw"} : SaveNext(outcome)
  \/ FanRespond

SpecFan == InitFan /\ [][NextFan]_vars

\* The hits adapter a is due to contribute for what its upstream search answered.
DueFrom(a) ==
  { [url |-> fanUpstream[a].items[k].url, title |-> fanUpstream[a].items[k].title,
     priority |-> AdapterTable[a].priority] :
      k \in { i \in DOMAIN fanUpstream[a].items :
                ~(AdapterTable[a].blacklist
                    /\ TermsIn(fanUpstream[a].items[i].title) # {}) } }
DueUrls ==
  UNION { {h.url : h \in DueFrom(a)} : a \in {b \in Adapters : fanUpstream[b].state = "ok"} }

MaxList == 4

\* Urls as the adapters deliver them; the second names the resource of the first.
RankUrls == {"a.mp4", "a.mp4#t=10", "b.mp4", "c.mp4"}
RankPriorities == {1, 2, 3}
RankRecords == [url : RankUrls, title : {"Apollo 11 footage"}, priority : RankPriorities]

InitRank ==
  /\ LifeInit /\ PlanIdle /\ FanIdle /\ ImageIdle /\ BlacklistIdle /\ BatchIdle /\ OrderIdle
  /\ rankPc = "combined"
  /\ rankInput \in SeqsUpTo(RankRecords, MaxList)
  /\ rankUnique = <<>>
  /\ rankRanked = <<>>

\* const unique = allResults.filter(...)
RankDedup ==
  /\ rankPc = "combined"
  /\ rankUnique' = Dedup(rankInput)
  /\ rankPc' = "unique"
  /\ UNCHANGED <<rankInput, rankRanked>>
  /\ UNCHANGED <<lifeVars, planVars, fanVars, imageVars, blacklistVars, batchVars, orderVars>>

\* unique.sort((a, b) => a.priority - b.priority)
RankSort ==
  /\ rankPc = "unique"
  /\ rankRanked' = SortByPriority(rankUnique)
  /\ rankPc' = "ranked"
  /\ UNCHANGED <<rankInput, rankUnique>>
  /\ UNCHANGED <<lifeVars, planVars, fanVars, imageVars, blacklistVars, batchVars, orderVars>>

NextRank == RankDedup \/ RankSort

SpecRank == InitRank /\ [][NextRank]_vars

\* The key the records of one resource share: scheme, host and path of the url,
\* without its fragment.
NormalizedUrl(u) == IF u = "a.mp4#t=10" THEN "a.mp4" ELSE u

\* C11: the deduplicated list holds exactly one record for each normalized url of
\* the combined list and none for any other, and deduplicating it again changes
\* nothing.
DedupOnePerNormalizedUrl ==
  rankPc # "combined" =>
    /\ \A u \in {NormalizedUrl(rankInput[i].url) : i \in DOMAIN rankInput} :
          Cardinality({k \in DOMAIN rankUnique : NormalizedUrl(rankUnique[k].url) = u}) = 1
    /\ \A k \in DOMAIN rankUnique :
          \E i \in DOMAIN rankInput :
            NormalizedUrl(rankInput[i].url) = NormalizedUrl(rankUnique[k].url)
    /\ Dedup(rankUnique) = rankUnique

\* The positions of the combined list that hold the first record of their url.
FirstOccurrences ==
  {i \in DOMAIN rankInput : \A k \in DOMAIN rankInput : k < i => rankInput[k].url # rankInput[i].url}
\* The n-th smallest position of a set of positions.
NthOf(K, n) == CHOOSE k \in K : Cardinality({j \in K : j <= k}) = n

\* C12: the deduplicated list is the combined list restricted to the first record
\* of each url, in the order of the combined list, whatever the priorities of the
\* records dropped.
DedupKeepsFirstInOrder ==
  rankPc # "combined" =>
    /\ Len(rankUnique) = Cardinality(FirstOccurrences)
    /\ \A n \in DOMAIN rankUnique : rankUnique[n] = rankInput[NthOf(FirstOccurrences, n)]

\* C12 witness: the record kept has a worse priority than a later record of its
\* url, and a record of another url lies between them.
KeptFirstDespiteWorseTier ==
  /\ rankPc = "unique"
  /\ Len(rankInput) = 3 /\ Len(rankUnique) = 2
  /\ rankInput[1].url = rankInput[3].url
  /\ rankInput[1].priority > rankInput[3].priority
  /\ rankUnique[1] = rankInput[1] /\ rankUnique[2] = rankInput[2]

\* The place a record of the deduplicated list has in a stable ascending order.
StablePlace(k) ==
  Cardinality({j \in DOMAIN rankUnique :
                 \/ rankUnique[j].priority < rankUnique[k].priority
                 \/ (rankUnique[j].priority = rankUnique[k].priority /\ j <= k)})

\* C13: the ranked list holds the records of the deduplicated list in ascending
\* priority, records of equal priority in the order they had before.
RankingIsStable ==
  rankPc = "ranked" =>
    /\ Len(rankRanked) = Len(rankUnique)
    /\ \A k \in DOMAIN rankUnique : rankRanked[StablePlace(k)] = rankUnique[k]
    /\ \A n \in 1..(Len(rankRanked) - 1) :
          rankRanked[n].priority <= rankRanked[n + 1].priority

\* C13 witness: priorities 3, 1, 2, 1 come out as the records #2, #4, #3, #1.
RankedThreeOneTwoOne ==
  /\ rankPc = "ranked"
  /\ Len(rankUnique) = 4
  /\ <<rankUnique[1].priority, rankUnique[2].priority, rankUnique[3].priority,
       rankUnique[4].priority>> = <<3, 1, 2, 1>>
  /\ rankRanked = <<rankUnique[2], rankUnique[4], rankUnique[3], rankUnique[1]>>

\* ======================================================================
\* The video worker end to end
\* ======================================================================
\* The position in the combined list of the first record with the url of r.
FirstPlace(all, r) == CHOOSE i \in DOMAIN all : all[i].url = r.url /\ \A k \in 1..(i - 1) : all[k].url # r.url

NumCandidates == 2
ImgMaxResults == 1

\* `r.score >= 0.5` of the worker and `r.confidence >= 0.5`, `parsed.score >= 0.5`
\* of the service, in hundredths.
RelevanceThreshold == 50
ServiceThreshold == 50
\* The scores a capability reports, in hundredths.
Scores == {0, 49, 50, 90}

\* x >= t in JavaScript: false when x is undefined.
ScoreAtLeast(x, t) == x # NoScore /\ x >= t

\* What a capability says about one image: `relevant` and the score as reported or
\* missing; "omitted" stands for no entry in the reply at all.
Judgments == [relevant : {"true", "false", "missing"}, score : Scores \cup {NoScore}]
Omitted == [relevant |-> "omitted", score |-> NoScore]

\* imagesToCheck = searchResults.slice(0, Math.min(searchResults.length, maxResults * 3))
CheckedCount(n) == IF n < 3 * ImgMaxResults THEN n ELSE 3 * ImgMaxResults

\* The answers of the Qwen endpoint to a batch of n images.
QwenReplies(n) ==
  { [kind |-> k, items |-> <<>>] : k \in {"http_error", "no_results", "not_array"} }
    \cup { [kind |-> "results", items |-> js] : js \in [1..n -> Judgments \cup {Omitted}] }

\* How the Claude call for one image ends.
ClaudeOutcomes ==
  { [kind |-> k, relevant |-> "missing", score |-> NoScore] : k \in {"error", "no_json"} }
    \cup { [kind |-> "parsed", relevant |-> j.relevant, score |-> j.score] : j \in Judgments }

\* A catch that lets every image of the batch through.
QwenFailedOpen(n) == [i \in 1..n |-> [id |-> i, relevant |-> TRUE, score |-> 100]]

\* The catch of analyzeImageBatchWithQwen: every image not relevant.
QwenFailed(n) == [i \in 1..n |-> [id |-> i, relevant |-> FALSE, score |-> 0]]

RECURSIVE QwenMapFrom(_, _)
QwenMapFrom(items, i) ==
  IF i > Len(items) THEN <<>>
  ELSE (IF items[i] = Omitted THEN <<>>
        ELSE <<[id |-> i,
                relevant |-> (items[i].relevant = "true"
                                /\ ScoreAtLeast(items[i].score, ServiceThreshold)),
                score |-> items[i].score]>>)
         \o QwenMapFrom(items, i + 1)
\* results.map(r => ({id: r.id, relevant: r.relevant && r.confidence >= 0.5,
\*                    score: r.confidence}))
QwenMap(items) == QwenMapFrom(items, 1)

\* validateImageWithClaude for image i
ClaudeResult(i, o) ==
  IF o.kind = "parsed"
    THEN [id |-> i,
          relevant |-> (o.relevant = "true" /\ ScoreAtLeast(o.score, ServiceThreshold)),
          score |-> IF o.score = NoScore THEN 0 ELSE o.score]
    ELSE [id |-> i, relevant |-> FALSE, score |-> 0]

\* A filter with an exclusive boundary.
PassesFilterAbove(r) == r.relevant /\ r.score # NoScore /\ r.score > RelevanceThreshold

\* .filter(r => r.relevant && r.score >= 0.5)
PassesFilter(r) == r.relevant /\ ScoreAtLeast(r.score, RelevanceThreshold)

RECURSIVE IndicesFrom(_, _, _)
IndicesFrom(n, keep, i) ==
  IF i > n THEN <<>>
  ELSE (IF i \in keep THEN <<i>> ELSE <<>>) \o IndicesFrom(n, keep, i + 1)
\* searchResults.filter((_, idx) => relevantIndices.has(idx))
FilterByIndex(n, keep) == IndicesFrom(n, keep, 1)

InitImage ==
  /\ LifeInit /\ PlanIdle /\ FanIdle /\ RankIdle /\ BlacklistIdle /\ BatchIdle /\ OrderIdle
  /\ imgPc = "start"
  /\ imgConfig \in [filter : BOOLEAN, qwen : BOOLEAN]
  /\ imgCount = 0
  /\ imgQwen = NoQwenReply
  /\ imgClaude = <<>>
  /\ imgResults = <<>>
  /\ imgToProcess = <<>>
  /\ imgNext = 0
  /\ imgSaved = 0
  /\ imgAttempts = <<>>
  /\ imgMedia = <<>>
  /\ imgReturn = NoReturn

\* searchWebForImages throws: the outer catch returns {success: false}.
ImgSearchFails ==
  /\ imgPc = "start"
  /\ imgReturn' = [success |-> FALSE, count |-> NoScore]
  /\ imgPc' = "done"
  /\ UNCHANGED <<imgConfig, imgCount, imgQwen, imgClaude, imgResults, imgToProcess,
                 imgNext, imgSaved, imgAttempts, imgMedia>>
  /\ UNCHANGED <<lifeVars, planVars, fanVars, rankVars, blacklistVars, batchVars, orderVars>>

\* searchWebForImages returns n images. Without the filter, or without images, all
\* of them go to the save loop.
ImgSearch(n) ==
  /\ imgPc = "start"
  /\ imgCount' = n
  /\ IF imgConfig.filter /\ n > 0
       THEN /\ imgPc' = "scoring"
            /\ UNCHANGED <<imgToProcess, imgNext>>
       ELSE /\ imgPc' = "saving"
            /\ imgToProcess' = FilterByIndex(n, 1..n)
            /\ imgNext' = 1
  /\ UNCHANGED <<imgConfig, imgQwen, imgClaude, imgResults, imgSaved, imgAttempts,
                 imgMedia, imgReturn>>
  /\ UNCHANGED <<lifeVars, planVars, fanVars, rankVars, blacklistVars, batchVars, orderVars>>

\* validateImageBatch with Qwen: the endpoint answers. A `results` that is no array
\* makes results.map throw, and the catch falls through to the Claude calls.
ImgQwenBatch(reply) ==
  /\ imgPc = "scoring" /\ imgConfig.qwen
  /\ reply \in QwenReplies(CheckedCount(imgCount))
  /\ imgQwen' = reply
  /\ IF reply.kind = "not_array"
       THEN /\ imgPc' = "fallback"
            /\ UNCHANGED imgResults
       ELSE /\ imgPc' = "scored"
            /\ imgResults' =
                 IF reply.kind = "http_error" THEN QwenFailed(CheckedCount(imgCount))
                 ELSE IF reply.kind = "no_results" THEN <<>>
                 ELSE QwenMap(reply.items)
  /\ UNCHANGED <<imgConfig, imgCount, imgClaude, imgToProcess, imgNext, imgSaved,
                 imgAttempts, imgMedia, imgReturn>>
  /\ UNCHANGED <<lifeVars, planVars, fanVars, rankVars, blacklistVars, batchVars, orderVars>>

\* validateImageBatch without Qwen, or after its failure: one Claude call per image.
ImgClaudeEach(outcomes) ==
  /\ \/ imgPc = "scoring" /\ ~imgConfig.qwen
     \/ imgPc = "fallback"
  /\ Len(outcomes) = CheckedCount(imgCount)
  /\ imgClaude' = outcomes
  /\ imgResults' = [i \in 1..CheckedCount(imgCount) |-> ClaudeResult(i, outcomes[i])]
  /\ imgPc' = "scored"
  /\ UNCHANGED <<imgConfig, imgCount, imgQwen, imgToProcess, imgNext, imgSaved,
                 imgAttempts, imgMedia, imgReturn>>
  /\ UNCHANGED <<lifeVars, planVars, fanVars, rankVars, blacklistVars, batchVars, orderVars>>

\* relevantIndices and imagesToProcess
ImgSelect ==
  /\ imgPc = "scored"
  /\ imgToProcess' =
       FilterByIndex(imgCount,
                     {imgResults[k].id : k \in {x \in DOMAIN imgResults : PassesFilter(imgResults[x])}})
  /\ imgNext' = 1
  /\ imgPc' = "saving"
  /\ UNCHANGED <<imgConfig, imgCount, imgQwen, imgClaude, imgResults, imgSaved,
                 imgAttempts, imgMedia, imgReturn>>
  /\ UNCHANGED <<lifeVars, planVars, fanVars, rankVars, blacklistVars, batchVars, orderVars>>

\* One turn of the save loop: the upload yields no url (`continue`), the insert is
\* applied, resolves with an error, or something throws into the catch.
ImgSave(outcome) ==
  /\ imgPc = "saving" /\ imgNext <= Len(imgToProcess) /\ imgSaved < ImgMaxResults
  /\ imgAttempts' = Append(imgAttempts, [image |-> imgToProcess[imgNext], outcome |-> outcome])
  /\ imgMedia' = IF outcome = "ok" THEN Append(imgMedia, imgToProcess[imgNext]) ELSE imgMedia
  /\ imgSaved' = IF outcome \in {"ok", "error"} THEN imgSaved + 1 ELSE imgSaved
  /\ imgNext' = imgNext + 1
  /\ UNCHANGED <<imgPc, imgConfig, imgCount, imgQwen, imgClaude, imgResults, imgToProcess,
                 imgReturn>>
  /\ UNCHANGED <<lifeVars, planVars, fanVars, rankVars, blacklistVars, batchVars, orderVars>>

\* The loop ended or broke on `saved >= maxResults`: the count is written and the
\* worker returns {success: true, count: saved}.
ImgFinish ==
  /\ imgPc = "saving"
  /\ imgNext > Len(imgToProcess) \/ imgSaved >= ImgMaxResults
  /\ imgReturn' = [success |-> TRUE, count |-> imgSaved]
  /\ imgPc' = "done"
  /\ UNCHANGED <<imgConfig, imgCount, imgQwen, imgClaude, imgResults, imgToProcess,
                 imgNext, imgSaved, imgAttempts, imgMedia>>
  /\ UNCHANGED <<lifeVars, planVars, fanVars, rankVars, blacklistVars, batchVars, orderVars>>

AllQwenReplies == UNION {QwenReplies(n) : n \in 0..NumCandidates}
AllClaudeOutcomes == UNION {[1..n -> ClaudeOutcomes] : n \in 0..NumCandidates}

NextImage ==
  \/ ImgSearchFails
  \/ \E n \in 0..NumCandidates : ImgSearch(n)
  \/ \E reply \in AllQwenReplies : ImgQwenBatch(reply)
  \/ \E outcomes \in AllClaudeOutcomes : ImgClaudeEach(outcomes)
  \/ ImgSelect
  \/ \E outcome \in {"no_upload", "ok", "error", "throw"} : ImgSave(outcome)
  \/ ImgFinish

SpecImage == InitImage /\ [][NextImage]_vars

\* ----------------------------------------------------------------------
\* Properties of the relevance filter and the save loop
\* ----------------------------------------------------------------------
FilterApplied == imgConfig.filter /\ imgCount > 0 /\ imgPc \in {"saving", "done"}
ToProcess == {imgToProcess[k] : k \in DOMAIN imgToProcess}

\* What the capability that was asked reported about image i: the Claude call when
\* Claude was used, else the entry of the Qwen reply; "omitted" when there is none.
Reported(i) ==
  IF imgClaude # <<>>
    THEN IF i <= Len(imgClaude) /\ imgClaude[i].kind = "parsed"
           THEN [relevant |-> imgClaude[i].relevant, score |-> imgClaude[i].score]
           ELSE Omitted
    ELSE IF imgQwen.kind = "results" /\ i <= Len(imgQwen.items)
           THEN imgQwen.items[i]
           ELSE Omitted

\* C15: with the filter applied, an image goes on to the save loop exactly when the
\* capability reported it relevant with a score of at least 0.5, the boundary
\* included.
FilterKeepsRelevantAtHalf ==
  FilterApplied =>
    \A i \in 1..imgCount :
      i \in ToProcess <=>
        (Reported(i).relevant = "true" /\ Reported(i).score \in Scores /\ Reported(i).score >= 50)

\* C15 witness: two images reported relevant, with scores 0.5 and 0.49: the first
\* is kept, the second is not.
KeptAtHalfDroppedBelow ==
  /\ FilterApplied /\ imgCount = 2
  /\ Reported(1) = [relevant |-> "true", score |-> 50]
  /\ Reported(2) = [relevant |-> "true", score |-> 49]
  /\ imgToProcess = <<1>>

\* The capability failed for image i or gave no judgment about it.
NoJudgment(i) ==
  Reported(i).relevant \in {"omitted", "missing"} \/ Reported(i).score = NoScore

\* C16: with the filter applied, an image without a judgment never reaches the
\* save loop and is never inserted, and nothing is inserted that did not pass.
ScoringFailureRejects ==
  /\ FilterApplied =>
       \A i \in 1..imgCount :
         NoJudgment(i) =>
           /\ i \notin ToProcess
           /\ \A k \in DOMAIN imgMedia : imgMedia[k] # i
           /\ \A k \in DOMAIN imgAttempts : imgAttempts[k].image # i
  /\ \A k \in DOMAIN imgMedia : imgMedia[k] \in ToProcess

\* C16 witness: the batch call failed as a whole, and the worker finished with
\* nothing inserted.
BatchFailedNothingSaved ==
  /\ imgPc = "done" /\ imgConfig.filter /\ imgCount = 2
  /\ imgQwen.kind = "http_error" /\ imgClaude = <<>>
  /\ imgToProcess = <<>> /\ imgMedia = <<>>
  /\ imgReturn = [success |-> TRUE, count |-> 0]

\* C18: when an insert of the save loop failed, the worker still returns success,
\* the loop went through the list in order, and it attempted every record of the
\* list unless as many records as asked for were inserted.
InsertFailureDoesNotStopLoop ==
  (imgPc = "done" /\ imgAttempts # <<>>) =>
    /\ imgReturn.success
    /\ \A k \in DOMAIN imgAttempts : imgAttempts[k].image = imgToProcess[k]
    /\ (\E k \in DOMAIN imgAttempts : imgAttempts[k].outcome \in {"error", "throw"}) =>
          \/ Len(imgAttempts) = Len(imgToProcess)
          \/ Len(imgMedia) >= ImgMaxResults

\* ======================================================================
\* The blacklist check of the video workers on its own
\* ======================================================================
\* Texts are sequences of characters.
UpperCase == <<"A", "B", "C", "D", "E", "F", "G", "H", "I", "J", "K", "L", "M", "N", "O", "P", "Q", "R", "S", "T", "U", "V", "W", "X", "Y", "Z">>
LowerCase == <<"a", "b", "c", "d", "e", "f", "g", "h", "i", "j", "k", "l", "m", "n", "o", "p", "q", "r", "s", "t", "u", "v", "w", "x", "y", "z">>
LowerOf(c) ==
  IF \E i \in DOMAIN UpperCase : UpperCase[i] = c
    THEN LowerCase[CHOOSE i \in DOMAIN UpperCase : UpperCase[i] = c]
    ELSE c
\* String.prototype.toLowerCase
toLowerCase(text) == [i \in DOMAIN text |-> LowerOf(text[i])]
\* String.prototype.includes
includes(text, part) ==
  \E i \in 1..(Len(text) - Len(part) + 1) : SubSeq(text, i, i + Len(part) - 1) = part

BLACKLIST_TERMS ==
  {
    <<"u", "f", "o">>,
    <<"a", "l", "i", "e", "n">>,
    <<"f", "a", "s", "h", "i", "o", "n", " ", "w", "e", "e", "k">>,
    <<"r", "u", "n", "w", "a", "y">>,
    <<"m", "o", "d", "e", "l", " ", "w", "a", "l", "k">>,
    <<"c", "o", "o", "k", "i", "n", "g", " ", "r", "e", "c", "i", "p", "e">>,
    <<"m", "a", "k", "e", "u", "p", " ", "t", "u", "t", "o", "r", "i", "a", "l">>,
    <<"u", "n", "b", "o", "x", "i", "n", "g">>,
    <<"a", "s", "m", "r">>,
    <<"m", "i", "n", "e", "c", "r", "a", "f", "t">>,
    <<"f", "o", "r", "t", "n", "i", "t", "e">>,
    <<"g", "a", "m", "i", "n", "g">>,
    <<"c", "r", "y", "p", "t", "o">>,
    <<"b", "i", "t", "c", "o", "i", "n">>,
    <<"n", "f", "t">>,
    <<"w", "o", "r", "k", "o", "u", "t">>,
    <<"y", "o", "g", "a">>,
    <<"m", "e", "d", "i", "t", "a", "t", "i", "o", "n">>,
    <<"m", "u", "k", "b", "a", "n", "g">>,
    <<"t", "i", "k", "t", "o", "k", " ", "c", "o", "m", "p", "i", "l", "a", "t", "i", "o", "n">>,
    <<"f", "u", "n", "n", "y", " ", "c", "a", "t", "s">>,
    <<"f", "u", "n", "n", "y", " ", "d", "o", "g", "s">>,
    <<"p", "r", "a", "n", "k">>,
    <<"c", "h", "a", "l", "l", "e", "n", "g", "e">>,
    <<"r", "e", "a", "c", "t", " ", "t", "o">>,
    <<"r", "e", "a", "c", "t", "i", "o", "n", " ", "v", "i", "d", "e", "o">> }

stopWords ==
  {
    <<"t", "h", "e">>,
    <<"a", "n", "d">>,
    <<"f", "o", "r">>,
    <<"w", "a", "s">>,
    <<"w", "e", "r", "e">>,
    <<"a", "r", "e">>,
    <<"h", "o", "w">>,
    <<"w", "h", "a", "t">>,
    <<"w", "h", "o">>,
    <<"w", "h", "e", "n">>,
    <<"w", "h", "e", "r", "e">>,
    <<"w", "h", "y">>,
    <<"d", "i", "d">>,
    <<"d", "o", "e", "s">>,
    <<"h", "a", "s">>,
    <<"h", "a", "v", "e">>,
    <<"h", "a", "d">>,
    <<"b", "e", "e", "n">>,
    <<"b", "e", "i", "n", "g">>,
    <<"w", "i", "t", "h">>,
    <<"f", "r", "o", "m">>,
    <<"a", "b", "o", "u", "t">>,
    <<"i", "n", "t", "o">>,
    <<"t", "h", "a", "t">>,
    <<"t", "h", "i", "s">>,
    <<"t", "h", "e", "s", "e">>,
    <<"t", "h", "o", "s", "e">>,
    <<"h", "a", "p", "p", "e", "n">>,
    <<"h", "a", "p", "p", "e", "n", "e", "d">>,
    <<"h", "a", "p", "p", "e", "n", "s">>,
    <<"h", "a", "p", "p", "e", "n", "i", "n", "g">>,
    <<"s", "t", "a", "r", "t">>,
    <<"s", "t", "a", "r", "t", "e", "d">>,
    <<"s", "t", "a", "r", "t", "s">>,
    <<"b", "e", "g", "i", "n">>,
    <<"b", "e", "g", "a", "n">>,
    <<"b", "e", "c", "o", "m", "e">>,
    <<"b", "e", "c", "a", "m", "e">>,
    <<"m", "a", "k", "e">>,
    <<"m", "a", "d", "e">>,
    <<"e", "x", "p", "l", "a", "i", "n", "e", "d">>,
    <<"e", "x", "p", "l", "a", "i", "n">>,
    <<"s", "t", "o", "r", "y">>,
    <<"h", "i", "s", "t", "o", "r", "y">>,
    <<"d", "o", "c", "u", "m", "e", "n", "t", "a", "r", "y">>,
    <<"v", "i", "d", "e", "o">>,
    <<"f", "u", "l", "l">>,
    <<"c", "o", "m", "p", "l", "e", "t", "e">> }

\* isBlacklisted of the video worker, on texts:
\* `if (!title) return false; return BLACKLIST_TERMS.some(term => titleLower.includes(term))`
isBlacklistedText(title) ==
  title # <<>> /\ \E term \in BLACKLIST_TERMS : includes(toLowerCase(title), term)

\* topicLower.split(/\s+/), without the empty strings, which the length filter drops
RECURSIVE WordsFrom(_, _, _)
WordsFrom(text, i, word) ==
  IF i > Len(text) THEN (IF word = <<>> THEN <<>> ELSE <<word>>)
  ELSE IF text[i] = " "
         THEN (IF word = <<>> THEN <<>> ELSE <<word>>) \o WordsFrom(text, i + 1, <<>>)
         ELSE WordsFrom(text, i + 1, Append(word, text[i]))
Words(text) == WordsFrom(text, 1, <<>>)

IsKeyword(word) == Len(word) > 2 /\ word \notin stopWords
RECURSIVE KeywordsFrom(_, _)
KeywordsFrom(words, i) ==
  IF i > Len(words) THEN <<>>
  ELSE (IF IsKeyword(words[i]) THEN <<words[i]>> ELSE <<>>) \o KeywordsFrom(words, i + 1)

\* A keyword matches when the title contains it or, for 6 characters and more, its
\* first 5 characters.
KeywordMatches(titleLower, keyword) ==
  \/ includes(titleLower, keyword)
  \/ Len(keyword) >= 6 /\ includes(titleLower, SubSeq(keyword, 1, 5))

\* Math.max(1, Math.ceil(n * 0.35))
MinMatches(n) ==
  LET c == (n * 35 + 99) \div 100 IN IF c < 1 THEN 1 ELSE c

\* isRelevant of video-standalone.ts, with the place it returned from.
isRelevant(title, topic) ==
  IF title = <<>> \/ topic = <<>> THEN [result |-> FALSE, at |-> "guard"]
  ELSE LET titleLower == toLowerCase(title)
           topicLower == toLowerCase(topic)
       IN IF \E blacklisted \in BLACKLIST_TERMS :
               includes(titleLower, blacklisted) /\ ~includes(topicLower, blacklisted)
            THEN [result |-> FALSE, at |-> "blacklist"]
            ELSE LET keywords == KeywordsFrom(Words(topicLower), 1)
                     matchCount ==
                       Cardinality({k \in DOMAIN keywords :
                                      KeywordMatches(titleLower, keywords[k])})
                 IN [result |->
                       IF Len(keywords) = 0 THEN TRUE
                       ELSE IF Len(keywords) <= 2 THEN matchCount >= 1
                       ELSE matchCount >= MinMatches(Len(keywords)),
                     at |-> "keywords"]

\* "", "Minecraft", "MINECRAFT moon", "Moon landing", "ufo", "Wargaming",
\* "Apollo 11", "nft art"
StageTitles ==
  { <<>>,
    <<"M", "i", "n", "e", "c", "r", "a", "f", "t">>,
    <<"M", "I", "N", "E", "C", "R", "A", "F", "T", " ", "m", "o", "o", "n">>,
    <<"M", "o", "o", "n", " ", "l", "a", "n", "d", "i", "n", "g">>,
    <<"u", "f", "o">>,
    <<"W", "a", "r", "g", "a", "m", "i", "n", "g">>,
    <<"A", "p", "o", "l", "l", "o", " ", "1", "1">>,
    <<"n", "f", "t", " ", "a", "r", "t">> }
\* "", "minecraft", "Moon landing", "UFO files", "the war"
StageTopics ==
  { <<>>,
    <<"m", "i", "n", "e", "c", "r", "a", "f", "t">>,
    <<"M", "o", "o", "n", " ", "l", "a", "n", "d", "i", "n", "g">>,
    <<"U", "F", "O", " ", "f", "i", "l", "e", "s">>,
    <<"t", "h", "e", " ", "w", "a", "r">> }

InitBlacklist ==
  /\ LifeInit /\ PlanIdle /\ FanIdle /\ RankIdle /\ ImageIdle /\ BatchIdle /\ OrderIdle
  /\ blkPc = "on"
  /\ blkTitle \in StageTitles
  /\ blkTopic \in StageTopics
  /\ blkRelevant = NoVerdict
  /\ blkBlacklisted = "none"

\* An adapter of video-standalone.ts checks the candidate.
CheckIsRelevant ==
  /\ blkPc = "on" /\ blkRelevant = NoVerdict
  /\ blkRelevant' = isRelevant(blkTitle, blkTopic)
  /\ UNCHANGED <<blkPc, blkTitle, blkTopic, blkBlacklisted>>
  /\ UNCHANGED <<lifeVars, planVars, fanVars, rankVars, imageVars, batchVars, orderVars>>

\* An adapter of the later video worker checks the candidate.
CheckIsBlacklisted ==
  /\ blkPc = "on" /\ blkBlacklisted = "none"
  /\ blkBlacklisted' = IF isBlacklistedText(blkTitle) THEN "true" ELSE "false"
  /\ UNCHANGED <<blkPc, blkTitle, blkTopic, blkRelevant>>
  /\ UNCHANGED <<lifeVars, planVars, fanVars, rankVars, imageVars, batchVars, orderVars>>

NextBlacklist == CheckIsRelevant \/ CheckIsBlacklisted

SpecBlacklist == InitBlacklist /\ [][NextBlacklist]_vars

\* The blacklist terms the title contains, whatever the case, and the topic does not.
UnexcusedTerms ==
  {term \in BLACKLIST_TERMS :
     includes(toLowerCase(blkTitle), term) /\ ~includes(toLowerCase(blkTopic), term)}

\* C17: a candidate is rejected by the blacklist check exactly when its title
\* contains a blacklist term that the topic does not contain, in isRelevant and in
\* isBlacklisted alike.
BlacklistRejectsUnlessTopicHasTerm ==
  /\ blkRelevant.at \in {"blacklist", "keywords"} =>
        (blkRelevant.at = "blacklist" <=> UnexcusedTerms # {})
  /\ blkBlacklisted # "none" =>
        (blkBlacklisted = "true" <=> UnexcusedTerms # {})

\* ======================================================================
\* Messages of the terminal statuses and the life of a registry entry
\* ======================================================================
\* C19: a row in status cancelled holds the message 'Cancelled by user', a row in
\* status failed holds the message of the error the .catch callback received, and
\* neither holds the other's message.
TerminalMessageMatchesStatus ==
  \A j \in Jobs :
    /\ projects[j].status = "cancelled" => projects[j].error_message = CancelMessage
    /\ projects[j].status = "failed" =>
          /\ caught[j] \in Errors
          /\ projects[j].error_message = caught[j]
          /\ projects[j].error_message # CancelMessage
    /\ \A i \in DOMAIN statusLog[j] :
          /\ statusLog[j][i].status = "cancelled" =>
                statusLog[j][i].error_message = CancelMessage
          /\ statusLog[j][i].status = "failed" =>
                statusLog[j][i].error_message = caught[j]

\* C19 witness: a row that was written failed with the error's message was then
\* cancelled, and holds the cancel message.
CancelledAfterFailed ==
  \E j \in Jobs :
    /\ \E i \in DOMAIN statusLog[j] :
          /\ statusLog[j][i].status = "failed"
          /\ statusLog[j][i].error_message = "ENOSPC"
    /\ projects[j].status = "cancelled"
    /\ projects[j].error_message = CancelMessage

\* Promise.all(...) has settled: every pipeline fulfilled, or one rejected.
PipelineSettled(j) == AllFulfilled(j) \/ AnyRejected(j)

\* The callbacks chained on Promise.all: .then or .catch, the update they await,
\* .finally.
ChainStep(j) ==
  Checkpoint(j) \/ CompletedLands(j) \/ Catch(j) \/ FailedLands(j) \/ Settle(j)

\* The job lifecycle with the callbacks of a settled promise run by the event loop
\* and the awaited update of the row resolving.
SpecLive == Init /\ [][Next]_vars /\ \A j \in Jobs : WF_vars(ChainStep(j))

\* C20: a registry entry of a job whose pipelines have settled is eventually
\* removed, and once the chain has run to its end the registry holds no entry of the
\* job, whatever status the row ended in.
RegistryEntryRemoved ==
  \A j \in Jobs :
    /\ [](pc[j] = "settled" => activeJobs[j] = "absent")
    /\ (activeJobs[j] # "absent" /\ PipelineSettled(j)) ~> (activeJobs[j] = "absent")

\* C20 witness: the chain of a cancelled job ran to its end after the final update
\* of the pipeline, and the entry with its flag set is gone.
EntryRemovedAfterCancel ==
  \E j \in Jobs :
    /\ pc[j] = "settled" /\ activeJobs[j] = "absent"
    /\ flagRead[j] = "unset" /\ cancelAnswered[j] > 0
    /\ "completed" \in LoggedStatuses(j)
    /\ projects[j].status = "cancelled"

\* ======================================================================
\* The checkpoint, the counters and the end of a job
\* ======================================================================
\* A media-type pipeline that was started and has not returned.
StillRunning(j, w) == wpc[j][w] \in {"running", "writing"}

\* C21: the update to completed is sent and applied only when no media-type
\* pipeline of the job is still running, and the cancellation flag has been read
\* only when every pipeline has returned.
CheckpointAfterAllReturned ==
  \A j \in Jobs :
    /\ (pc[j] = "completing" \/ projects[j].status = "completed") =>
          \A w \in Workers : ~StillRunning(j, w)
    /\ flagRead[j] # "none" => \A w \in Workers : ~StillRunning(j, w)

CountsFrozenOnceCancelled ==
  [][\A j \in Jobs :
       projects[j].status = "cancelled" => projects'[j].counts = projects[j].counts]_vars

\* ======================================================================
\* The image worker from the search to the scoring call
\* ======================================================================
MaxPerAdapter == 2
\* Two of the seven searches of searchWebForImages, in the order their results are
\* added.
ImageAdapters == <<"archive", "serper">>
ImageUrls == {"a.jpg", "b.jpg", "c.jpg"}
ImageItems == [url : ImageUrls, title : Titles]
ImageReplies == SeqsUpTo(ImageItems, MaxPerAdapter)

\* `for (const r of xResults) if (!results.find(existing => existing.url === r.url))
\* results.push(r);`
RECURSIVE PushUnique(_, _, _)
PushUnique(results, found, i) ==
  IF i > Len(found) THEN results
  ELSE PushUnique(IF \E k \in DOMAIN results : results[k].url = found[i].url
                    THEN results ELSE Append(results, found[i]),
                  found, i + 1)

RECURSIVE MergeFrom(_, _, _)
MergeFrom(results, upstream, a) ==
  IF a > Len(ImageAdapters) THEN results
  ELSE MergeFrom(PushUnique(results, upstream[a], 1), upstream, a + 1)

\* list.slice(0, n)
SliceTo(list, n) == SubSeq(list, 1, IF Len(list) < n THEN Len(list) ELSE n)

\* searchWebForImages(topic, maxResults): `return results.slice(0, maxResults)`
searchWebForImages(upstream, maxResults) ==
  SliceTo(MergeFrom(<<>>, upstream, 1), maxResults)

\* searchResults.slice(0, Math.min(searchResults.length, maxResults * 3))
\*   .map((img, idx) => ({url: img.url, id: String(idx)})), ids counted from 1 here
ImagesToCheck(searchResults, maxResults) ==
  LET head == SliceTo(searchResults, maxResults * 3)
  IN [i \in DOMAIN head |-> [url |-> head[i].url, id |-> i]]

InitBatch ==
  /\ LifeInit /\ PlanIdle /\ FanIdle /\ RankIdle /\ ImageIdle /\ BlacklistIdle /\ OrderIdle
  /\ batPc = "start"
  /\ batUpstream \in [DOMAIN ImageAdapters -> ImageReplies]
  /\ batResults = <<>>
  /\ batToCheck = <<>>

\* `searchResults = await searchWebForImages(topic, maxResults * 4)`, relevance
\* filtering switched on.
BatchSearch ==
  /\ batPc = "start"
  /\ batResults' = searchWebForImages(batUpstream, ImgMaxResults * 4)
  /\ batPc' = "found"
  /\ UNCHANGED <<batUpstream, batToCheck>>
  /\ UNCHANGED <<lifeVars, planVars, fanVars, rankVars, imageVars, blacklistVars, orderVars>>

\* `if (FILTER_BY_RELEVANCE && searchResults.length > 0)`: the batch is built and
\* validateImageBatch(topic, imagesToCheck) is called.
BatchSubmit ==
  /\ batPc = "found" /\ Len(batResults) > 0
  /\ batToCheck' = ImagesToCheck(batResults, ImgMaxResults)
  /\ batPc' = "scoring"
  /\ UNCHANGED <<batUpstream, batResults>>
  /\ UNCHANGED <<lifeVars, planVars, fanVars, rankVars, imageVars, blacklistVars, orderVars>>

\* Nothing was found: no scoring call is made.
BatchSkip ==
  /\ batPc = "found" /\ Len(batResults) = 0
  /\ batPc' = "unscored"
  /\ UNCHANGED <<batUpstream, batResults, batToCheck>>
  /\ UNCHANGED <<lifeVars, planVars, fanVars, rankVars, imageVars, blacklistVars, orderVars>>

NextBatch == BatchSearch \/ BatchSubmit \/ BatchSkip

SpecBatch == InitBatch /\ [][NextBatch]_vars

\* C24: the batch handed to the scoring call holds no two candidates with the same
\* url and no candidate whose title the blacklist check rejects.
BatchIsFilteredAndDeduplicated ==
  batPc = "scoring" =>
    /\ \A i, k \in DOMAIN batToCheck :
          batToCheck[i].url = batToCheck[k].url => i = k
    /\ \A i \in DOMAIN batToCheck : ~isBlacklisted(batResults[batToCheck[i].id].title)

\* ======================================================================
\* The video fan-out: blacklist per adapter, completion order, counts
\* ======================================================================
\* C25: the blacklist check reaches the candidates of every adapter, and nothing
\* else decides membership: the answered list holds no record with a blacklisted
\* title, and the url of every upstream item with a clean title is in it, whatever
\* adapter and priority it came with.
StageAOnEveryAdapter ==
  fanResponse.status = 200 =>
    /\ \A k \in DOMAIN fanResponse.results :
          ~isBlacklisted(fanResponse.results[k].title)
    /\ \A a \in Adapters : \A i \in DOMAIN fanUpstream[a].items :
          ~isBlacklisted(fanUpstream[a].items[i].title) =>
             \E k \in DOMAIN fanResponse.results :
                fanResponse.results[k].url = fanUpstream[a].items[i].url

\* ======================================================================
\* Counters of a job
\* ======================================================================
\* C26: in an index.js job each count column is written by its own pipeline only,
\* with the value that pipeline accumulated: a column holds the saved count of its
\* pipeline once that pipeline's update was applied and nothing before, under every
\* interleaving of the three pipelines, and an update changes no other column.
CountersAreSingleWriter ==
  /\ [](\A j \in Jobs : \A w \in Workers :
          (IndexJob(j) /\ RowExists(projects[j])) =>
             projects[j].counts[w] =
               IF wpc[j][w] = "done" THEN saved[j][w] ELSE NullCount)
  /\ [][\A j \in Jobs : \A w \in Workers :
          CountWriteLands(j, w) =>
             \A x \in Workers \ {w} : projects'[j].counts[x] = projects[j].counts[x]]_vars

\* C26 witness: the three pipelines finished with counts that differ, all three
\* updates were applied, and each column holds the count of its own pipeline.
ThreeCountersWritten ==
  \E j \in Jobs :
    /\ IndexJob(j) /\ \A w \in Workers : wpc[j][w] = "done"
    /\ saved[j]["image"] = 1 /\ saved[j]["video"] = 0 /\ saved[j]["news"] = 1
    /\ projects[j].counts = saved[j]

\* ======================================================================
\* Termination of a job
\* ======================================================================
\* A step of a media-type pipeline of index.js or of a worker call of the
\* orchestrator.
WorkerStep(j) ==
  \E w \in Workers :
    \/ WorkerFatal(j, w)
    \/ \E n \in SavedCounts : WorkerCounts(j, w, n)
    \/ CountWriteLands(j, w)
    \/ \E n \in SavedCounts \cup {NullCount} : WorkerReplies(j, w, n)
    \/ WorkerCallFails(j, w)

\* The background function of the orchestrator: the planner returns, the final
\* update is applied.
OrchStep(j) == OrchFanOut(j) \/ OrchComplete(j)

\* The job lifecycle where every worker call returns, fails or times out, the
\* planner call returns, the callbacks of settled promises run and every update
\* that was sent is applied.
SpecTerminates ==
  /\ Init /\ [][Next]_vars
  /\ \A j \in Jobs :
       /\ WF_vars(WorkerStep(j))
       /\ WF_vars(OrchStep(j))
       /\ WF_vars(ChainStep(j))
       /\ WF_vars(CancelLands(j))

\* C27: a job whose request was answered {status: processing} eventually has a
\* row in status completed, failed or cancelled.
AcceptedJobTerminates ==
  \A j \in Jobs : (response[j] = "processing") ~> (projects[j].status \in Terminal)

\* ======================================================================
\* Promise.all over the adapters: completion order
\* ======================================================================
\* A result array taken in the order the promises resolved.
PromiseAllByArrival(results, arrived) ==
  [i \in DOMAIN arrived |-> results[arrived[i]]]

\* `const [archive, searxngVideos, ...] = await Promise.all([...])`: the values come
\* in the order of the input array, whatever order the promises resolved in.
PromiseAll(results, arrived) == results

RECURSIVE StampFrom(_, _, _)
StampFrom(a, urls, i) ==
  IF i > Len(urls) THEN <<>>
  ELSE <<[url |-> urls[i], title |-> "Apollo 11 footage",
          priority |-> AdapterTable[a].priority]>> \o StampFrom(a, urls, i + 1)
\* The records adapter a resolves with for the urls it found.
Stamp(a, urls) == StampFrom(a, urls, 1)

FixedResults ==
  {[a \in Adapters |-> Stamp(a, f[a])] : f \in [Adapters -> SeqsUpTo(Urls, MaxHits)]}

InitOrder ==
  /\ LifeInit /\ PlanIdle /\ FanIdle /\ RankIdle /\ ImageIdle /\ BlacklistIdle /\ BatchIdle
  /\ ordPc = "waiting"
  /\ ordResults \in FixedResults
  /\ ordArrived = <<>>
  /\ ordRanked = <<>>

\* The promise of adapter a resolves.
OrderSettles(a) ==
  /\ ordPc = "waiting"
  /\ \A i \in DOMAIN ordArrived : ordArrived[i] # a
  /\ ordArrived' = Append(ordArrived, a)
  /\ UNCHANGED <<ordPc, ordResults, ordRanked>>
  /\ UNCHANGED <<lifeVars, planVars, fanVars, rankVars, imageVars, blacklistVars, batchVars>>

\* Every promise resolved: combine, deduplicate, sort.
OrderRank ==
  /\ ordPc = "waiting" /\ Len(ordArrived) = NumAdapters
  /\ ordRanked' = SortByPriority(Dedup(Combine(PromiseAll(ordResults, ordArrived))))
  /\ ordPc' = "ranked"
  /\ UNCHANGED <<ordResults, ordArrived>>
  /\ UNCHANGED <<lifeVars, planVars, fanVars, rankVars, imageVars, blacklistVars, batchVars>>

NextOrder == (\E a \in Adapters : OrderSettles(a)) \/ OrderRank

SpecOrder == InitOrder /\ [][NextOrder]_vars

\* The place of url u in the ranked list, 0 when absent.
RankedPlace(u) ==
  IF \E k \in DOMAIN ordRanked : ordRanked[k].url = u
    THEN CHOOSE k \in DOMAIN ordRanked : ordRanked[k].url = u
    ELSE 0

\* C28: the ranked list is fixed by the arrays of the adapters alone: it is the
\* sorted, deduplicated concatenation in the order of the adapter list, whatever
\* order the adapters resolved in.
RankedListIgnoresArrival ==
  ordPc = "ranked" =>
    /\ ordRanked = SortByPriority(Dedup(Combine(ordResults)))
    /\ \A a, b \in Adapters : \A i \in DOMAIN ordResults[a], k \in DOMAIN ordResults[b] :
          (/\ a < b
           /\ ordResults[a][i].url # ordResults[b][k].url
           /\ ordResults[a][i].priority = ordResults[b][k].priority
           /\ \A c \in Adapters : \A n \in DOMAIN ordResults[c] :
                 /\ ordResults[c][n].url = ordResults[a][i].url => c = a
                 /\ ordResults[c][n].url = ordResults[b][k].url => c = b) =>
             RankedPlace(ordResults[a][i].url) < RankedPlace(ordResults[b][k].url)

\* C28 witness: the adapters resolved in reverse order, the second and the third
\* found different urls at the same priority, and the second's record comes first.
RankedAfterReverseArrival ==
  /\ ordPc = "ranked"
  /\ ordArrived = <<3, 2, 1>>
  /\ ordResults[1] = <<>>
  /\ Len(ordResults[2]) = 1 /\ Len(ordResults[3]) = 1
  /\ ordResults[2][1].url = "a.mp4" /\ ordResults[3][1].url = "b.mp4"
  /\ ordRanked = ordResults[2] \o ordResults[3]

\* ======================================================================
\* Reported counts against persisted records
\* ======================================================================
\* C29: the count the video worker reports for a job, which the orchestrator stores
\* as video_count, is at most the number of media rows the worker inserted for it.
CountWithinPersisted ==
  (fanProject /\ fanResponse.status = 200) => fanResponse.count <= Len(media)

\* C30: no row is in status completed while holding the message of a cancel
\* request.
NeverCompletedWithCancelMessage ==
  \A j \in Jobs :
    ~(projects[j].status = "completed" /\ projects[j].error_message = CancelMessage)

====
